---- MODULE Spec2Model ----
(***************************************************************************)
(* Model of the two service modules of knowledge_table_api:                *)
(*   services/llm.py           the five LLM query functions                *)
(*   services/json_encoder.py  CustomJSONEncoder                           *)
(*                                                                         *)
(* A Python value is a record whose field k names its type.  A Python str  *)
(* is [k |-> "str", s |-> <<fragments>>]: its text is the concatenation of *)
(* the fragments, so that "contains" is a test on fragments.               *)
(***************************************************************************)
EXTENDS Integers, Sequences, FiniteSets, TLC

VARIABLES
  pc,             \* position of the one call in progress: idle, render, call, encode, done
  fn,             \* the function called
  args,           \* its arguments
  locals,         \* its local variables once the prompt is rendered
  calls,          \* remote structured-output calls issued by this invocation
  remote,         \* how the remote call ended: none, ok, raised
  outcome,        \* how the function ended: none, returned, raised
  ret,            \* the value returned, or the exception's name when raised
  log,            \* the levels logged by this invocation
  json_imported   \* whether `from ...prompts import *` binds the name json in llm.py

vars == <<pc, fn, args, locals, calls, remote, outcome, ret, log, json_imported>>

\* ---------------------------------------------------------------- bounds
MaxRules == 2
MaxCols == 2
NObj == 2

\* ---------------------------------------------------------------- Python values
None == [k |-> "none"]
PyStr(s) == [k |-> "str", s |-> s]
PyInt(n) == [k |-> "int", n |-> n]
PyFloat(n) == [k |-> "float", n |-> n]
PyBool(b) == [k |-> "bool", b |-> b]
PyList(items) == [k |-> "list", items |-> items]
PyDict(items) == [k |-> "dict", items |-> items]

\* The outcome of evaluating an expression: a value, or an exception raised.
Ok(v) == [exc |-> "", val |-> v]
Raise(e) == [exc |-> e, val |-> None]

RECURSIVE StrItems(_)

\* str(v) / f"{v}", as a sequence of fragments.
StrFrags(v) ==
  CASE v.k = "str" -> v.s
    [] v.k = "none" -> <<"None">>
    [] v.k = "int" -> <<ToString(v.n)>>
    [] v.k = "float" -> <<ToString(v.n), ".0">>
    [] v.k = "bool" -> <<IF v.b THEN "True" ELSE "False">>
    [] v.k = "list" -> <<"[">> \o StrItems(v.items) \o <<"]">>
    [] v.k = "dict" -> <<"{", "...", "}">>
    [] OTHER -> <<"<", v.k, " object>">>

\* The items of a list's repr, separated by ", " (items of the model's lists
\* are numbers, None or str).
StrItems(items) ==
  IF items = <<>> THEN <<>>
  ELSE LET h == items[1]
           r == IF h.k = "str" THEN <<"'">> \o h.s \o <<"'">> ELSE StrFrags(h)
       IN IF Len(items) = 1 THEN r ELSE r \o <<", ">> \o StrItems(Tail(items))

RECURSIVE Join(_, _)
\* sep.join(xs): TypeError when an item is not a str.
Join(sep, xs) ==
  IF xs = <<>> THEN Ok(PyStr(<<>>))
  ELSE IF xs[1].k # "str" THEN Raise("TypeError")
  ELSE IF Len(xs) = 1 THEN Ok(xs[1])
  ELSE LET r == Join(sep, Tail(xs))
       IN IF r.exc # "" THEN r ELSE Ok(PyStr(xs[1].s \o <<sep>> \o r.val.s))

\* Whether text t holds the fragments p, in a row.
Contains(t, p) ==
  \E i \in 1..(Len(t) - Len(p) + 1) : SubSeq(t, i, i + Len(p) - 1) = p

\* Python truthiness of the values the code tests.
Truthy(v) ==
  CASE v.k = "none" -> FALSE
    [] v.k = "list" -> v.items # <<>>
    [] v.k = "str" -> v.s # <<>>
    [] OTHER -> TRUE

\* ---------------------------------------------------------------- llm.py: rule lines
Rule(type, options, length) == [k |-> "rule", type |-> type, options |-> options, length |-> length]

RECURSIVE QuotedOptions(_)
\* ", ".join(f'"{option}"' for option in options)
QuotedOptions(options) ==
  IF options = <<>> THEN <<>>
  ELSE LET q == <<"\"">> \o StrFrags(options[1]) \o <<"\"">>
       IN IF Len(options) = 1 THEN q ELSE q \o <<", ">> \o QuotedOptions(Tail(options))

MustReturnHead == "You should only consider these possible values when answering the question: "
MustReturnTail == ". If these values do not exist in the raw text chunks, or if they do not correctly answer the question, respond with "
NotFound == <<"\"", "not found", "\"">>

_get_str_rule_line(str_rule, query) ==
  IF str_rule # None /\ str_rule.type = "must_return" /\ Truthy(str_rule.options)
  THEN Ok(PyStr(<<MustReturnHead>> \o QuotedOptions(str_rule.options.items)
                \o <<MustReturnTail>> \o NotFound \o <<".">>))
  ELSE IF str_rule # None /\ str_rule.type = "may_return" /\ Truthy(str_rule.options)
  THEN LET options_str == Join(", ", str_rule.options.items)
       IN IF options_str.exc # "" THEN options_str
          ELSE Ok(PyStr(<<"For example: Query: ">> \o StrFrags(query) \o <<" Response: ">>
                        \o options_str.val.s
                        \o <<", etc... If you cannot find a related, correct answer in the raw text chunks, respond with ">>
                        \o NotFound \o <<".">>))
  ELSE Ok(PyStr(<<>>))

\* The function ends after its if: with no rule, or a rule of length None, it
\* returns None.
_get_int_rule_line(int_rule) ==
  IF int_rule # None /\ int_rule.length # None
  THEN PyStr(<<"Your answer should only return up to ">> \o StrFrags(int_rule.length)
             \o <<" items. If you have to choose between multiple, return those that answer the question the best.">>)
  ELSE None

\* ---------------------------------------------------------------- prompts.py templates
\* Template.substitute puts str(value) in the place of each placeholder.
BOOL_INSTRUCTIONS == PyStr(<<"BOOL_INSTRUCTIONS">>)

STR_ARRAY_INSTRUCTIONS(str_rule_line, int_rule_line) ==
  PyStr(<<"STR_ARRAY_INSTRUCTIONS ">> \o StrFrags(str_rule_line) \o <<" ">> \o StrFrags(int_rule_line))

INT_ARRAY_INSTRUCTIONS(int_rule_line) ==
  PyStr(<<"INT_ARRAY_INSTRUCTIONS ">> \o StrFrags(int_rule_line))

BASE_PROMPT(query, chunks, format_specific_instructions) ==
  PyStr(<<"BASE_PROMPT query=">> \o StrFrags(query) \o <<" chunks=">> \o StrFrags(chunks)
        \o <<" ">> \o StrFrags(format_specific_instructions))

KEYWORD_PROMPT(query) == PyStr(<<"KEYWORD_PROMPT query=">> \o StrFrags(query))

SIMILAR_KEYWORDS_PROMPT(rule, chunks) ==
  PyStr(<<"SIMILAR_KEYWORDS_PROMPT rule=">> \o StrFrags(rule) \o <<" chunks=">> \o StrFrags(chunks))

DECOMPOSE_QUERY_PROMPT(query) == PyStr(<<"DECOMPOSE_QUERY_PROMPT query=">> \o StrFrags(query))

SCHEMA_PROMPT(documents, columns, entity_types) ==
  PyStr(<<"SCHEMA_PROMPT documents=">> \o StrFrags(documents) \o <<" columns=">> \o StrFrags(columns)
        \o <<" entity_types=">> \o StrFrags(entity_types))

\* ---------------------------------------------------------------- llm.py: prompt rendering
RECURSIVE FirstRule(_, _)
\* next((rule for rule in rules if rule.type in types), None)
FirstRule(rules, types) ==
  IF rules = <<>> THEN None
  ELSE IF rules[1].type \in types THEN rules[1]
  ELSE FirstRule(Tail(rules), types)

\* Variant: the last matching rule is taken, not the first.
RECURSIVE LastRule(_, _)
LastRule(rules, types) ==
  IF rules = <<>> THEN None
  ELSE IF rules[Len(rules)].type \in types THEN rules[Len(rules)]
  ELSE LastRule(SubSeq(rules, 1, Len(rules) - 1), types)

SelectStrRuleLast(rules) == LastRule(rules, {"must_return", "may_return"})
\* The selection of the rule the str rule line is built from.
SelectStrRule(rules) == FirstRule(rules, {"must_return", "may_return"})

SelectIntRule(rules) == FirstRule(rules, {"max_length"})

\* The locals of a function whose prompt is rendered; exc names the exception
\* when rendering raised.
Frame(exc, output_model, str_rule_line, int_rule_line, instructions, text) ==
  [exc |-> exc, output_model |-> output_model, str_rule_line |-> str_rule_line,
   int_rule_line |-> int_rule_line, format_specific_instructions |-> instructions,
   prompt |-> text]

NoFrame == Frame("", "", None, None, None, None)

\* generate_response up to its try statement.
generate_response_prompt(query, chunks, rules, format) ==
  LET str_rule == SelectStrRule(rules)
      int_rule == SelectIntRule(rules)
  IN CASE format = "bool" ->
            Frame("", "BoolResponseModel", None, None, BOOL_INSTRUCTIONS,
                  BASE_PROMPT(query, chunks, BOOL_INSTRUCTIONS))
       [] format \in {"str_array", "str"} ->
            LET str_rule_line == _get_str_rule_line(str_rule, query)
                int_rule_line == _get_int_rule_line(int_rule)
                fsi == STR_ARRAY_INSTRUCTIONS(str_rule_line.val, int_rule_line)
            IN IF str_rule_line.exc # ""
               THEN Frame(str_rule_line.exc, "", None, None, PyStr(<<>>), None)
               ELSE Frame("", IF format = "str_array" THEN "StrArrayResponseModel" ELSE "StrResponseModel",
                          str_rule_line.val, int_rule_line, fsi, BASE_PROMPT(query, chunks, fsi))
       [] format \in {"int", "int_array"} ->
            LET int_rule_line == _get_int_rule_line(int_rule)
                fsi == INT_ARRAY_INSTRUCTIONS(int_rule_line)
            IN Frame("", IF format = "int_array" THEN "IntArrayResponseModel" ELSE "IntResponseModel",
                     None, int_rule_line, fsi, BASE_PROMPT(query, chunks, fsi))

get_keywords_prompt(query) ==
  Frame("", "KeywordsResponseModel", None, None, None, KEYWORD_PROMPT(query))

get_similar_keywords_prompt(chunks, rule) ==
  Frame("", "KeywordsResponseModel", None, None, None, SIMILAR_KEYWORDS_PROMPT(rule, chunks))

decompose_query_prompt(query) ==
  Frame("", "SubQueriesResponseModel", None, None, None, DECOMPOSE_QUERY_PROMPT(query))

RECURSIVE Dedup(_, _)
\* list(set(xs)): each element once (the order of a set is unspecified; the
\* model keeps the order of first occurrence).
Dedup(xs, seen) ==
  IF xs = <<>> THEN <<>>
  ELSE IF xs[1] \in seen THEN Dedup(Tail(xs), seen)
  ELSE <<xs[1]>> \o Dedup(Tail(xs), seen \cup {xs[1]})

RECURSIVE JsonDumpsColumns(_)
\* json.dumps(columns, indent=2) for the list of column dicts.
JsonDumpsColumns(columns) ==
  IF columns = <<>> THEN <<>>
  ELSE LET c == columns[1]
           et == IF c.entity_type = None THEN <<"null">>
                 ELSE <<"\"">> \o StrFrags(c.entity_type) \o <<"\"">>
           one == <<"{\"id\": \"">> \o StrFrags(c.id) \o <<"\", \"entity_type\": ">> \o et \o <<"}">>
       IN IF Len(columns) = 1 THEN one ELSE one \o <<", ">> \o JsonDumpsColumns(Tail(columns))

\* generate_schema up to its try statement.  data is a Table: rows (each the
\* name of its document) and columns (each an id and the prompt's entityType).
generate_schema_prompt(data, json_bound) ==
  LET documents == Dedup(data.rows, {})
      columns == [i \in 1..Len(data.columns) |->
                    [id |-> data.columns[i].id, entity_type |-> data.columns[i].entityType]]
      entity_types == [i \in 1..Len(columns) |-> columns[i].entity_type]
      docs_str == Join(", ", documents)
      ents_str == Join(", ", entity_types)
  IN IF docs_str.exc # "" THEN Frame(docs_str.exc, "", None, None, None, None)
     ELSE IF ~json_bound THEN Frame("NameError", "", None, None, None, None)
     ELSE IF ents_str.exc # "" THEN Frame(ents_str.exc, "", None, None, None, None)
     ELSE Frame("", "SchemaResponseModel", None, None, None,
                SCHEMA_PROMPT(docs_str.val, PyStr(<<"[">> \o JsonDumpsColumns(columns) \o <<"]">>),
                              ents_str.val))

RenderPrompt(f, a, json_bound) ==
  CASE f = "generate_response" -> generate_response_prompt(a.query, a.chunks, a.rules, a.format)
    [] f = "get_keywords" -> get_keywords_prompt(a.query)
    [] f = "get_similar_keywords" -> get_similar_keywords_prompt(a.chunks, a.rule)
    [] f = "decompose_query" -> decompose_query_prompt(a.query)
    [] f = "generate_schema" -> generate_schema_prompt(a.data, json_bound)

\* ---------------------------------------------------------------- llm.py: the try statements
\* The value each function returns from its except clause.
Fallback(f) ==
  CASE f = "generate_response" -> PyDict([answer |-> None])
    [] f = "get_keywords" -> PyDict([keywords |-> PyList(<<>>)])
    [] f = "get_similar_keywords" -> PyDict([keywords |-> PyList(<<>>)])
    [] f = "decompose_query" -> PyDict([x \in {"sub-queries"} |-> PyList(<<>>)])
    [] f = "generate_schema" -> PyDict([schema |-> PyDict([relationships |-> PyList(<<>>)])])

\* Variant: the except clause logs and raises again.
OnExceptionReraise(f) == [outcome |-> "raised", ret |-> PyStr(<<"Exception">>), log |-> <<"error">>]
\* The except clause: log the error, return the fallback.
OnException(f) == [outcome |-> "returned", ret |-> Fallback(f), log |-> <<"error">>]

\* The return statement of the try body, for the response the client gave.
OnResponse(f, response) ==
  [outcome |-> "returned",
   ret |-> CASE f = "generate_response" -> PyDict(response)
             [] f \in {"get_keywords", "get_similar_keywords"} -> PyDict([keywords |-> response.keywords])
             [] f = "decompose_query" -> PyDict([x \in {"sub-queries"} |-> response.sub_queries])
             [] f = "generate_schema" -> PyDict([schema |-> PyDict(response)]),
   log |-> <<>>]

\* The validated responses the structured-output API can give for a model.
Responses(output_model) ==
  CASE output_model = "BoolResponseModel" -> {[answer |-> PyBool(TRUE)], [answer |-> None]}
    [] output_model = "StrResponseModel" -> {[answer |-> PyStr(<<"A">>)], [answer |-> None]}
    [] output_model = "StrArrayResponseModel" -> {[answer |-> PyList(<<PyStr(<<"A">>)>>)], [answer |-> None]}
    [] output_model = "IntResponseModel" -> {[answer |-> PyInt(3)], [answer |-> None]}
    [] output_model = "IntArrayResponseModel" -> {[answer |-> PyList(<<PyInt(3)>>)], [answer |-> None]}
    [] output_model = "KeywordsResponseModel" -> {[keywords |-> PyList(<<PyStr(<<"k">>)>>)], [keywords |-> PyList(<<>>)]}
    [] output_model = "SubQueriesResponseModel" -> {[sub_queries |-> PyList(<<PyStr(<<"q1">>)>>)], [sub_queries |-> PyList(<<>>)]}
    [] output_model = "SchemaResponseModel" -> {[relationships |-> PyList(<<PyStr(<<"r">>)>>)], [relationships |-> PyList(<<>>)]}

\* ---------------------------------------------------------------- json_encoder.py: values
PyDate(iso) == [k |-> "date", iso |-> iso]
PyDecimal(n) == [k |-> "decimal", n |-> n]
PySet(elems) == [k |-> "set", elems |-> elems]
NdArray(items) == [k |-> "ndarray", items |-> items]
NpInteger(n) == [k |-> "np.integer", n |-> n]
NpFloating(n) == [k |-> "np.floating", n |-> n]
\* An object with a to_dict method; to_dict is the outcome of calling it.
ToDictObj(to_dict) == [k |-> "todict_obj", to_dict |-> to_dict]
\* An object whose attributes (__dict__) are heap[id].
Obj(id) == [k |-> "obj", id |-> id]
\* A value with no to_dict and no __dict__ that json cannot encode.
Opaque == [k |-> "object"]

ChunkMetadata ==
  [k |-> "chunkmeta", language |-> PyStr(<<"en">>), length |-> PyInt(5), size |-> PyInt(9),
   data_source_type |-> PyStr(<<"manual">>), index |-> PyInt(0), page |-> None,
   start |-> PyInt(0), end |-> PyInt(5)]

Chunk(created_at, updated_at, metadata, embedding, user_metadata) ==
  [k |-> "chunk", chunk_id |-> PyStr(<<"c1">>), created_at |-> created_at,
   updated_at |-> updated_at, document_id |-> PyStr(<<"d1">>),
   workspace_ids |-> PyList(<<PyStr(<<"w1">>)>>), metadata |-> metadata,
   content |-> PyStr(<<"text">>), embedding |-> embedding,
   tags |-> PyDict([w1 |-> PyList(<<PyStr(<<"t">>)>>)]), user_metadata |-> user_metadata]

\* isinstance(obj, cls)
IsInstance(obj, cls) ==
  CASE cls = "bool" -> obj.k = "bool"
    [] cls = "date" -> obj.k = "date"
    [] cls = "Decimal" -> obj.k = "decimal"
    [] cls = "set" -> obj.k = "set"
    [] cls = "Chunk" -> obj.k = "chunk"
    [] cls = "ChunkMetadata" -> obj.k = "chunkmeta"
    [] cls = "np.ndarray" -> obj.k = "ndarray"
    [] cls = "np.integer" -> obj.k = "np.integer"
    [] cls = "np.floating" -> obj.k = "np.floating"

\* hasattr(obj, name): instances of Python classes carry __dict__.
HasAttr(obj, name) ==
  CASE name = "to_dict" -> obj.k = "todict_obj"
    [] name = "__dict__" -> obj.k \in {"obj", "todict_obj", "chunk", "chunkmeta"}

\* str.lower() on the fragments the encoder lowers.
Lower(frags) ==
  [i \in 1..Len(frags) |->
     CASE frags[i] = "True" -> "true" [] frags[i] = "False" -> "false" [] OTHER -> frags[i]]

RECURSIVE SetToSeq(_)
\* list(a_set): the elements in some order.
SetToSeq(S) ==
  IF S = {} THEN <<>>
  ELSE LET x == CHOOSE y \in S : TRUE IN <<x>> \o SetToSeq(S \ {x})

\* ---------------------------------------------------------------- json_encoder.py: branches
\* The branch of default that obj takes: the first whose test holds.
Dispatch(obj) ==
  IF IsInstance(obj, "bool") THEN "bool"
  ELSE IF IsInstance(obj, "date") THEN "date"
  ELSE IF IsInstance(obj, "Decimal") THEN "Decimal"
  ELSE IF IsInstance(obj, "set") THEN "set"
  ELSE IF IsInstance(obj, "Chunk") THEN "Chunk"
  ELSE IF IsInstance(obj, "ChunkMetadata") THEN "ChunkMetadata"
  ELSE IF IsInstance(obj, "np.ndarray") THEN "np.ndarray"
  ELSE IF IsInstance(obj, "np.integer") THEN "np.integer"
  ELSE IF IsInstance(obj, "np.floating") THEN "np.floating"
  ELSE IF HasAttr(obj, "to_dict") THEN "to_dict"
  ELSE IF HasAttr(obj, "__dict__") THEN "__dict__"
  ELSE "fallback"

\* Variant: str(obj) without .lower().
encode_bool_no_lower(obj) == PyStr(StrFrags(obj))
\* str(obj).lower()
encode_bool(obj) == PyStr(Lower(StrFrags(obj)))

\* obj.isoformat()
encode_date(obj) == PyStr(<<obj.iso>>)

\* Variant: the set is returned as it is.
encode_set_unchanged(obj) == obj
\* list(obj)
encode_set(obj) == PyList(SetToSeq(obj.elems))

\* obj.tolist()
encode_ndarray(obj) == PyList([i \in 1..Len(obj.items) |-> PyFloat(obj.items[i])])

\* obj.to_dict(): its value, or the exception it raises.
encode_to_dict(obj) == obj.to_dict

\* Variant: the value is returned as it is.
encode_fallback_unchanged(obj) == obj
\* super().default(obj) raises TypeError for every obj; the handler returns str(obj).
encode_fallback(obj) == PyStr(StrFrags(obj))

encode_chunk_metadata(metadata) ==
  PyDict([language |-> metadata.language, length |-> metadata.length, size |-> metadata.size,
          data_source_type |-> metadata.data_source_type, index |-> metadata.index,
          page |-> metadata.page, start |-> metadata.start, end |-> metadata.end])

\* Variant: metadata is never encoded.
encode_chunk_no_metadata(chunk, embedding) ==
  PyDict([chunk_id |-> chunk.chunk_id,
          created_at |-> IF Truthy(chunk.created_at) THEN encode_date(chunk.created_at) ELSE None,
          updated_at |-> IF Truthy(chunk.updated_at) THEN encode_date(chunk.updated_at) ELSE None,
          document_id |-> chunk.document_id, workspace_ids |-> chunk.workspace_ids,
          metadata |-> None,
          content |-> chunk.content, embedding |-> embedding, tags |-> chunk.tags,
          user_metadata |-> chunk.user_metadata])
\* encode_chunk; embedding is self.default(chunk.embedding), computed by the caller.
encode_chunk(chunk, embedding) ==
  PyDict([chunk_id |-> chunk.chunk_id,
          created_at |-> IF Truthy(chunk.created_at) THEN encode_date(chunk.created_at) ELSE None,
          updated_at |-> IF Truthy(chunk.updated_at) THEN encode_date(chunk.updated_at) ELSE None,
          document_id |-> chunk.document_id, workspace_ids |-> chunk.workspace_ids,
          metadata |-> IF Truthy(chunk.metadata) THEN encode_chunk_metadata(chunk.metadata) ELSE None,
          content |-> chunk.content, embedding |-> embedding, tags |-> chunk.tags,
          user_metadata |-> chunk.user_metadata])

\* The depth of nested default calls at which the interpreter raises
\* RecursionError.  An acyclic attribute graph of NObj objects nests at most
\* NObj + 1 calls, so only a cyclic one reaches it.
RecursionLimit == NObj + 1

RECURSIVE Default(_, _, _)
\* CustomJSONEncoder.default(obj), as call number depth of the nesting, with
\* heap the attributes of the objects obj reaches.
Default(heap, obj, depth) ==
  LET branch == Dispatch(obj) IN
  IF depth > RecursionLimit THEN Raise("RecursionError")
  ELSE CASE branch = "bool" -> Ok(encode_bool(obj))
         [] branch = "date" -> Ok(encode_date(obj))
         [] branch = "Decimal" -> Ok(PyFloat(obj.n))
         [] branch = "set" -> Ok(encode_set(obj))
         [] branch = "Chunk" ->
              LET e == Default(heap, obj.embedding, depth + 1)
              IN IF e.exc # "" THEN e ELSE Ok(encode_chunk(obj, e.val))
         [] branch = "ChunkMetadata" -> Ok(encode_chunk_metadata(obj))
         [] branch = "np.ndarray" -> Ok(encode_ndarray(obj))
         [] branch = "np.integer" -> Ok(PyInt(obj.n))
         [] branch = "np.floating" -> Ok(PyFloat(obj.n))
         [] branch = "to_dict" -> encode_to_dict(obj)
         [] branch = "__dict__" ->
              LET d == heap[obj.id]
                  r == [key \in DOMAIN d |-> Default(heap, d[key], depth + 1)]
                  bad == {key \in DOMAIN d : r[key].exc # ""}
              IN IF bad # {} THEN Raise(r[CHOOSE key \in bad : TRUE].exc)
                 ELSE Ok(PyDict([key \in DOMAIN d |-> r[key].val]))
         [] branch = "fallback" -> Ok(encode_fallback(obj))

\* ---------------------------------------------------------------- inputs
RECURSIVE SeqsUpTo(_, _)
\* The sequences over S of length at most n.
SeqsUpTo(S, n) ==
  IF n = 0 THEN {<<>>}
  ELSE LET shorter == SeqsUpTo(S, n - 1)
       IN shorter \cup {Append(q, x) : q \in shorter, x \in S}

Formats == {"int", "str", "bool", "int_array", "str_array"}

Queries == {PyStr(<<"q">>)}

ChunkTexts == {PyStr(<<"chunk text">>)}

Rules ==
  { Rule("must_return", PyList(<<PyStr(<<"A">>), PyStr(<<"B">>)>>), None),
    Rule("must_return", None, None),
    Rule("may_return", PyList(<<PyStr(<<"A">>)>>), None),
    Rule("may_return", PyList(<<PyInt(7)>>), None),
    Rule("may_return", PyList(<<>>), None),
    Rule("max_length", None, PyInt(3)),
    Rule("max_length", None, None) }

KeywordRules == {PyList(<<>>), PyList(<<PyStr(<<"k">>)>>)}

Columns == {[id |-> PyStr(<<"col">>), entityType |-> e] : e \in {PyStr(<<"Person">>), None}}

Tables ==
  {[rows |-> r, columns |-> c] :
     r \in SeqsUpTo({PyStr(<<"doc1">>), PyStr(<<"doc2">>)}, 2), c \in SeqsUpTo(Columns, MaxCols)}

ObjIds == 1..NObj

AttrVals ==
  {PyBool(TRUE), PyInt(7), None, PyList(<<PyInt(1)>>), PyDict([a |-> PyInt(1)]),
   ToDictObj(Raise("ValueError"))} \cup {Obj(i) : i \in ObjIds}

\* The attributes of every object: x holds any value, flag a bool.
Heaps == [ObjIds -> [x : AttrVals, flag : {PyBool(TRUE), PyBool(FALSE)}]]

\* The heap of a value that reaches no object.
NoHeap == [i \in ObjIds |-> [x |-> None, flag |-> PyBool(FALSE)]]

Dates == {PyDate("2024-01-02T03:04:05")}

UserMetadata == {PyDict([w1 |-> PyStr(<<"v">>)]), PyDict([w1 |-> PyDecimal(2)])}

Chunks ==
  {Chunk(c, u, m, e, um) :
     c \in Dates \cup {None}, u \in Dates \cup {None}, m \in {ChunkMetadata, None},
     e \in {PyList(<<PyFloat(1), PyFloat(2)>>), None}, um \in UserMetadata}

EncoderInputs ==
  {PyBool(TRUE), PyBool(FALSE), PyDecimal(2), NdArray(<<1, 2>>), NpInteger(4), NpFloating(5),
   PySet({}), PySet({PyInt(1), PyInt(2)}), PySet({PyDate("2024-01-02")}),
   ToDictObj(Ok(PyDict([a |-> PyInt(1)]))), ToDictObj(Ok(PyDict([a |-> PyDecimal(2)]))),
   ToDictObj(Ok(PyDate("2024-01-02"))), ToDictObj(Raise("ValueError")),
   ChunkMetadata, Opaque, None, PyInt(7), PyStr(<<"s">>), PyList(<<PyInt(1)>>),
   PyDict([a |-> PyInt(1)])}
  \cup Dates \cup Chunks \cup {Obj(i) : i \in ObjIds}

\* ---------------------------------------------------------------- the calls
Init ==
  /\ pc = "idle"
  /\ fn = ""
  /\ args = None
  /\ locals = NoFrame
  /\ calls = 0
  /\ remote = "none"
  /\ outcome = "none"
  /\ ret = None
  /\ log = <<>>
  /\ json_imported \in BOOLEAN

\* A function is entered with arguments a; entry_log is what it logs first.
Enter(f, a, entry_log) ==
  /\ pc = "idle"
  /\ pc' = "render"
  /\ fn' = f
  /\ args' = a
  /\ log' = entry_log
  /\ UNCHANGED <<locals, calls, remote, outcome, ret, json_imported>>

generate_response ==
  \E query \in Queries, chunks \in ChunkTexts, rules \in SeqsUpTo(Rules, MaxRules), format \in Formats :
    Enter("generate_response",
          [query |-> query, chunks |-> chunks, rules |-> rules, format |-> format], <<"info">>)

get_keywords ==
  \E query \in Queries : Enter("get_keywords", [query |-> query], <<>>)

get_similar_keywords ==
  \E chunks \in ChunkTexts, rule \in KeywordRules :
    Enter("get_similar_keywords", [chunks |-> chunks, rule |-> rule], <<"info">>)

decompose_query ==
  \E query \in Queries : Enter("decompose_query", [query |-> query], <<"info">>)

generate_schema ==
  \E data \in Tables : Enter("generate_schema", [data |-> data], <<"info">>)

\* The statements before the try: the prompt is rendered, and an exception
\* raised there leaves the function.
Render ==
  /\ pc = "render"
  /\ LET frame == RenderPrompt(fn, args, json_imported)
     IN IF frame.exc # ""
        THEN /\ pc' = "done"
             /\ outcome' = "raised"
             /\ ret' = PyStr(<<frame.exc>>)
             /\ UNCHANGED locals
        ELSE /\ pc' = "call"
             /\ locals' = frame
             /\ UNCHANGED <<outcome, ret>>
  /\ UNCHANGED <<fn, args, calls, remote, log, json_imported>>

\* Variant: a failed call is made a second time before the fallback is returned.
TryWithRetry ==
  /\ pc = "call"
  /\ \E raised \in BOOLEAN :
       \E response \in Responses(locals.output_model) :
         LET end == IF raised THEN OnException(fn) ELSE OnResponse(fn, response)
         IN /\ remote' = IF raised THEN "raised" ELSE "ok"
            /\ outcome' = end.outcome
            /\ ret' = end.ret
            /\ log' = log \o end.log
            /\ calls' = IF raised THEN calls + 2 ELSE calls + 1
  /\ pc' = "done"
  /\ UNCHANGED <<fn, args, locals, json_imported>>
\* The try statement: client.chat.completions.create returns a validated
\* response or raises, and the function returns.
Try ==
  /\ pc = "call"
  /\ \E raised \in BOOLEAN :
       \E response \in Responses(locals.output_model) :
         LET end == IF raised THEN OnException(fn) ELSE OnResponse(fn, response)
         IN /\ remote' = IF raised THEN "raised" ELSE "ok"
            /\ outcome' = end.outcome
            /\ ret' = end.ret
            /\ log' = log \o end.log
  /\ calls' = calls + 1
  /\ pc' = "done"
  /\ UNCHANGED <<fn, args, locals, json_imported>>

\* CustomJSONEncoder.default is called on obj, whose objects' attributes are heap.
default ==
  /\ pc = "idle"
  /\ \E obj \in EncoderInputs, heap \in Heaps :
       /\ obj.k # "obj" => heap = NoHeap
       /\ args' = [obj |-> obj, heap |-> heap]
  /\ fn' = "default"
  /\ pc' = "encode"
  /\ UNCHANGED <<locals, calls, remote, outcome, ret, log, json_imported>>

\* default returns or raises.
DefaultEnd ==
  /\ pc = "encode"
  /\ LET r == Default(args.heap, args.obj, 1)
     IN /\ outcome' = IF r.exc # "" THEN "raised" ELSE "returned"
        /\ ret' = IF r.exc # "" THEN PyStr(<<r.exc>>) ELSE r.val
  /\ pc' = "done"
  /\ UNCHANGED <<fn, args, locals, calls, remote, log, json_imported>>

\* The caller has the result; the next call starts from scratch.
Finish ==
  /\ pc = "done"
  /\ pc' = "idle"
  /\ fn' = ""
  /\ args' = None
  /\ locals' = NoFrame
  /\ calls' = 0
  /\ remote' = "none"
  /\ outcome' = "none"
  /\ ret' = None
  /\ log' = <<>>
  /\ UNCHANGED json_imported

Next ==
  \/ generate_response
  \/ get_keywords
  \/ get_similar_keywords
  \/ decompose_query
  \/ generate_schema
  \/ Render
  \/ Try
  \/ default
  \/ DefaultEnd
  \/ Finish

Spec == Init /\ [][Next]_vars

\* ================================================================ claims
LLMFunctions ==
  {"generate_response", "get_keywords", "get_similar_keywords", "decompose_query", "generate_schema"}

\* The fallback values the functions document.
ExpectedFallback(f) ==
  CASE f = "generate_response" -> PyDict([answer |-> None])
    [] f \in {"get_keywords", "get_similar_keywords"} -> PyDict([keywords |-> PyList(<<>>)])
    [] f = "decompose_query" -> PyDict([x \in {"sub-queries"} |-> PyList(<<>>)])
    [] f = "generate_schema" -> PyDict([schema |-> PyDict([relationships |-> PyList(<<>>)])])

\* C1: whenever the remote structured-output call raises, each of the five
\* functions returns its fixed fallback value and raises nothing.
C1_RemoteFailureGivesFallback ==
  (pc = "done" /\ fn \in LLMFunctions /\ remote = "raised")
    => (outcome = "returned" /\ ret = ExpectedFallback(fn))

C1_Witness ==
  /\ pc = "done" /\ fn = "generate_schema" /\ remote = "raised"
  /\ ret = PyDict([schema |-> PyDict([relationships |-> PyList(<<>>)])])

\* C2 (as claimed): an exception raised while the prompt is rendered is
\* replaced with the function's fallback value and never reaches the caller.
C2_RenderFailureGivesFallback ==
  (pc = "done" /\ fn \in LLMFunctions /\ RenderPrompt(fn, args, json_imported).exc # "")
    => (outcome = "returned" /\ ret = ExpectedFallback(fn))

HasMustReturnText(instructions, options) ==
  /\ Contains(instructions.s, <<MustReturnHead>>)
  /\ \A i \in 1..Len(options) :
       Contains(instructions.s, <<"\"">> \o StrFrags(options[i]) \o <<"\"">>)
  /\ Contains(instructions.s, <<"not found">>)

IsMustReturnWithOptions(rule) ==
  rule # None /\ rule.type = "must_return" /\ rule.options # None /\ rule.options.items # <<>>

\* C9 (as claimed): for format str or str_array, a must_return rule with
\* options anywhere in the rule list puts the enumerated-value restriction in
\* the instructions.
C9_AnyMustReturnRule ==
  (fn = "generate_response" /\ pc \in {"call", "done"} /\ args.format \in {"str", "str_array"})
    => \A i \in 1..Len(args.rules) :
         IsMustReturnWithOptions(args.rules[i])
           => /\ locals.exc = "" /\ locals.format_specific_instructions # None
              /\ outcome # "raised"
              /\ HasMustReturnText(locals.format_specific_instructions, args.rules[i].options.items)

\* The first rule of type must_return or may_return, written out.
FirstStrRuleIndex(rules) ==
  LET idx == {i \in 1..Len(rules) : rules[i].type \in {"must_return", "may_return"}}
  IN IF idx = {} THEN 0 ELSE CHOOSE i \in idx : \A j \in idx : i <= j

\* C9 (amended): for format str or str_array, when the first rule of type
\* must_return or may_return in the list is a must_return rule with options,
\* the instructions hold the restriction with each option in double quotes
\* and the phrase "not found".
C9_FirstStrRuleIsMustReturn ==
  (fn = "generate_response" /\ pc \in {"call", "done"} /\ args.format \in {"str", "str_array"})
    => LET i == FirstStrRuleIndex(args.rules)
       IN (i > 0 /\ IsMustReturnWithOptions(args.rules[i]))
            => /\ locals.exc = "" /\ outcome # "raised"
               /\ locals.format_specific_instructions # None
               /\ HasMustReturnText(locals.format_specific_instructions, args.rules[i].options.items)

C9_Witness ==
  /\ fn = "generate_response" /\ pc = "call" /\ args.format = "str_array"
  /\ Len(args.rules) = 2 /\ args.rules[1].type = "max_length"
  /\ IsMustReturnWithOptions(args.rules[2])
  /\ Contains(locals.format_specific_instructions.s, <<"\"", "B", "\"">>)

\* C5 (as claimed): with no rule of the kind, or a rule without usable options
\* or length, both rule lines are the empty string.
C5_AbsentRuleGivesEmptyLine ==
  (fn = "generate_response" /\ pc = "call")
    => LET str_rule == FirstStrRuleIndex(args.rules)
           int_idx == {i \in 1..Len(args.rules) : args.rules[i].type = "max_length"}
       IN /\ (args.format \in {"str", "str_array"}
                /\ (str_rule = 0 \/ ~Truthy(args.rules[str_rule].options)))
               => locals.str_rule_line = PyStr(<<>>)
          /\ (args.format # "bool"
                /\ (int_idx = {} \/ args.rules[CHOOSE i \in int_idx : \A j \in int_idx : i <= j].length = None))
               => locals.int_rule_line = PyStr(<<>>)

RECURSIVE IsJSON(_)
\* Whether v is made of JSON primitives only, at every level.
IsJSON(v) ==
  CASE v.k \in {"none", "bool", "int", "float", "str"} -> TRUE
    [] v.k = "list" -> \A i \in 1..Len(v.items) : IsJSON(v.items[i])
    [] v.k = "dict" -> \A key \in DOMAIN v.items : IsJSON(v.items[key])
    [] OTHER -> FALSE

DefaultDone == pc = "done" /\ fn = "default"

\* C3 (as claimed): default never raises, whatever its input, objects whose
\* to_dict fails and objects with a cyclic attribute graph included.
C3_DefaultNeverRaises ==
  DefaultDone => outcome = "returned"

BoolString(v) == PyStr(<<IF v.b THEN "true" ELSE "false">>)

\* C6: a bool is encoded as the string "true" or "false", never as a JSON
\* boolean; the bool branch is the first of the dispatch, and bool attribute
\* values reached through the attribute recursion are encoded the same way.
C6_BoolIsLowercaseString ==
  (DefaultDone /\ outcome = "returned")
    => LET obj == args.obj IN
       /\ obj.k = "bool" => (Dispatch(obj) = "bool" /\ ret = BoolString(obj) /\ ret.k # "bool")
       /\ obj.k = "obj"
            => \A key \in DOMAIN args.heap[obj.id] :
                 args.heap[obj.id][key].k = "bool"
                   => ret.items[key] = BoolString(args.heap[obj.id][key])

C6_Witness ==
  /\ DefaultDone /\ outcome = "returned" /\ args.obj.k = "obj"
  /\ args.heap[args.obj.id].x = PyBool(TRUE) /\ args.heap[args.obj.id].flag = PyBool(FALSE)
  /\ ret = PyDict([x |-> PyStr(<<"true">>), flag |-> PyStr(<<"false">>)])

ChunkFields ==
  {"chunk_id", "created_at", "updated_at", "document_id", "workspace_ids", "metadata",
   "content", "embedding", "tags", "user_metadata"}

\* C8: an encoded chunk has exactly the ten fields; metadata is null when the
\* chunk has none and the encoded chunk metadata otherwise; created_at and
\* updated_at are null when absent and the ISO-8601 string otherwise.
C8_EncodedChunk ==
  (DefaultDone /\ args.obj.k = "chunk")
    => LET chunk == args.obj IN
       /\ outcome = "returned" /\ ret.k = "dict"
       /\ DOMAIN ret.items = ChunkFields
       /\ ret.items.metadata =
            IF chunk.metadata = None THEN None
            ELSE PyDict([f \in {"language", "length", "size", "data_source_type", "index",
                                "page", "start", "end"} |-> chunk.metadata[f]])
       /\ \A f \in {"created_at", "updated_at"} :
            ret.items[f] = IF chunk[f] = None THEN None ELSE PyStr(<<chunk[f].iso>>)

C8_Witness ==
  /\ DefaultDone /\ outcome = "returned" /\ args.obj.k = "chunk"
  /\ args.obj.metadata # None /\ args.obj.created_at # None /\ args.obj.updated_at = None
  /\ ret.items.metadata.k = "dict" /\ ret.items.updated_at = None

PlainKinds == {"int", "none", "list", "dict", "str", "object"}

\* C10: a value that matches no branch of default is returned as its string
\* representation; an attribute that is a plain int, None, list or dict is
\* encoded as a string, not kept as a number, null, array or object.
C10_UnmatchedValueIsString ==
  DefaultDone
    => LET obj == args.obj IN
       /\ obj.k \in PlainKinds
            => (outcome = "returned" /\ ret.k = "str" /\ ret.s = StrFrags(obj))
       /\ obj = None => ret = PyStr(<<"None">>)
       /\ obj = PyInt(7) => ret = PyStr(<<"7">>)
       /\ (obj.k = "obj" /\ args.heap[obj.id].x.k \in PlainKinds)
            => /\ outcome = "returned"
               /\ ret.items.x = PyStr(StrFrags(args.heap[obj.id].x))
               /\ ret.items.x.k \notin {"int", "none", "list", "dict"}

C10_Witness ==
  /\ DefaultDone /\ outcome = "returned" /\ args.obj.k = "obj"
  /\ args.heap[args.obj.id].x = PyList(<<PyInt(1)>>)
  /\ ret.items.x = PyStr(<<"[", "1", "]">>)

====
